---- MODULE Spec2Model ----
(***************************************************************************)
(* Dual-context OpenGL demo (src/src/main.rs): a ContextWrapper that hands *)
(* two GL contexts out and takes them back, the GPU objects main creates   *)
(* under them (one shared renderbuffer, one framebuffer object per         *)
(* context), and the event-loop closure (resize, redraw, close, teardown). *)
(* Every wrapper call and every block of GL calls between two wrapper      *)
(* calls is one step; pc is the position of main / of the closure.         *)
(***************************************************************************)
EXTENDS Integers, Sequences, FiniteSets, TLC

\* Largest width/height the windowing collaborator delivers in the model.
MaxDim == 2
\* Number of RedrawRequested events a run handles (the frame counter's cap).
MaxFrames == 2
\* Framebuffer names a namespace can hand out (main creates two objects).
MaxName == 2
\* Configs a display can enumerate, and the longest enumeration.
MaxConfigs == 2

None == "None"
\* Nothing bound to the thread.
Unbound == [ctx |-> None, surface |-> None]
windowed_context == "windowed_context"
headless_context == "headless_context"
Contexts == {windowed_context, headless_context}

VARIABLES
  \* ContextWrapper (struct fields) and the caller's side of it
  window,            \* Option<NotCurrentContext>: None or the context in the slot
  headless,          \* Option<NotCurrentContext>
  window_surface,    \* size <<w, h>> of the window surface
  headless_surface,  \* size <<w, h>> of the offscreen surface
  held,              \* contexts whose PossiblyCurrentContext the caller holds
  current,           \* what is bound to the thread: [ctx, surface]
  panic,             \* None, or why the process panicked (an unwrap failed)
  hist,              \* the last two wrapper calls, each with the state before it
  everAcquired,      \* contexts that have been handed out at least once
  \* main: locals captured by the closure
  pc, event, width, height, cf,
  render_buf, window_fb, headless_fb,   \* GL object names (0: not created yet)
  \* GL: the share group's renderbuffers, framebuffer objects, per-context state
  fboShared,         \* whether the driver keeps framebuffer names per share group
  rb,                \* the renderbuffer object: [state, size, content]
  fbo,               \* [namespace -> [name -> [state, att]]]
  gl,                \* [context -> [renderbuffer, draw, read, viewport]]
  winBack, screen,   \* window surface: back buffer content, presented content
  frame,             \* number of clears issued so far (the content they write)
  \* the windowing collaborator
  redrawRequests,    \* request_redraw calls of the handler in progress
  redrawPending,     \* a requested redraw has not been delivered yet
  \* observers
  touched,           \* <<handle, context current>> of every framebuffer handle use
  rbCreation,        \* how the renderbuffer was created
  storageCalls,      \* renderbuffer_storage calls of the handler in progress
  everResized,       \* a Resized handler has resized the offscreen surface
  log,               \* the calls made so far by initialization / by the handler in progress
  sel                \* select_display_config: its position, locals and what the backends answer

wrapperRest == <<window, headless, window_surface, headless_surface, held,
                 current, hist, everAcquired>>
wrapperVars == <<window, headless, window_surface, headless_surface, held,
                 current, panic, hist, everAcquired>>
mainRest == <<event, width, height, cf, render_buf, window_fb, headless_fb>>
mainVars == <<pc, event, width, height, cf, render_buf, window_fb, headless_fb>>
glVars == <<fboShared, rb, fbo, gl, winBack, screen, frame>>
envVars == <<redrawRequests, redrawPending>>
obsVars == <<touched, rbCreation, storageCalls, everResized>>
vars == <<wrapperVars, mainVars, glVars, envVars, obsVars, log, sel>>

----------------------------------------------------------------------------
(* ContextWrapper *)

\* The wrapper's state as a value, recorded before each call.
Snapshot ==
  [window |-> window, headless |-> headless,
   window_surface |-> window_surface, headless_surface |-> headless_surface,
   held |-> held, current |-> current]

Record(op, arg, ok) ==
  <<[op |-> op, arg |-> arg, ok |-> ok, pre |-> Snapshot]>>
    \o (IF hist = <<>> THEN <<>> ELSE <<hist[1]>>)

\* fn ct_wnd(&mut self): take the window slot, make it current on the window
\* surface. ok is the backend's answer to make_current.
ct_wnd(ok) ==
  /\ hist' = Record("ct_wnd", None, ok)
  /\ IF window = None
       THEN /\ panic' = "DoubleAcquire"
            /\ UNCHANGED <<window, held, current, everAcquired>>
       ELSE /\ window' = None
            /\ IF ok
                 THEN /\ current' = [ctx |-> window, surface |-> "window_surface"]
                      /\ held' = held \cup {window}
                      /\ everAcquired' = everAcquired \cup {window}
                      /\ UNCHANGED panic
                 ELSE /\ panic' = "MakeCurrentFailed"
                      /\ UNCHANGED <<held, current, everAcquired>>
  /\ UNCHANGED <<headless, window_surface, headless_surface>>

\* ct_head that makes the context current on the window surface.
ct_head_window_surface(ok) ==
  /\ hist' = Record("ct_head", None, ok)
  /\ IF headless = None
       THEN /\ panic' = "DoubleAcquire"
            /\ UNCHANGED <<headless, held, current, everAcquired>>
       ELSE /\ headless' = None
            /\ IF ok
                 THEN /\ current' = [ctx |-> headless, surface |-> "window_surface"]
                      /\ held' = held \cup {headless}
                      /\ everAcquired' = everAcquired \cup {headless}
                      /\ UNCHANGED panic
                 ELSE /\ panic' = "MakeCurrentFailed"
                      /\ UNCHANGED <<held, current, everAcquired>>
  /\ UNCHANGED <<window, window_surface, headless_surface>>

\* fn ct_head(&mut self): the same for the headless slot and surface.
ct_head(ok) ==
  /\ hist' = Record("ct_head", None, ok)
  /\ IF headless = None
       THEN /\ panic' = "DoubleAcquire"
            /\ UNCHANGED <<headless, held, current, everAcquired>>
       ELSE /\ headless' = None
            /\ IF ok
                 THEN /\ current' = [ctx |-> headless, surface |-> "headless_surface"]
                      /\ held' = held \cup {headless}
                      /\ everAcquired' = everAcquired \cup {headless}
                      /\ UNCHANGED panic
                 ELSE /\ panic' = "MakeCurrentFailed"
                      /\ UNCHANGED <<held, current, everAcquired>>
  /\ UNCHANGED <<window, window_surface, headless_surface>>

\* put_wnd that stores the context without unbinding it from the thread.
put_wnd_still_bound(ctx, ok) ==
  /\ hist' = Record("put_wnd", ctx, ok)
  /\ held' = held \ {ctx}
  /\ IF ok
       THEN /\ window' = ctx
            /\ UNCHANGED <<current, panic>>
       ELSE /\ panic' = "MakeNotCurrentFailed"
            /\ UNCHANGED <<window, current>>
  /\ UNCHANGED <<headless, window_surface, headless_surface, everAcquired>>

\* fn put_wnd(&mut self, ctx): make_not_current unbinds the thread's context;
\* the result goes into the window slot. The handle ctx is consumed.
put_wnd(ctx, ok) ==
  /\ hist' = Record("put_wnd", ctx, ok)
  /\ held' = held \ {ctx}
  /\ IF ok
       THEN /\ window' = ctx
            /\ current' = Unbound
            /\ UNCHANGED panic
       ELSE /\ panic' = "MakeNotCurrentFailed"
            /\ UNCHANGED <<window, current>>
  /\ UNCHANGED <<headless, window_surface, headless_surface, everAcquired>>

\* put_head that drops the context it was given instead of storing it.
put_head_lost(ctx, ok) ==
  /\ hist' = Record("put_head", ctx, ok)
  /\ held' = held \ {ctx}
  /\ IF ok
       THEN /\ current' = Unbound
            /\ UNCHANGED <<headless, panic>>
       ELSE /\ panic' = "MakeNotCurrentFailed"
            /\ UNCHANGED <<headless, current>>
  /\ UNCHANGED <<window, window_surface, headless_surface, everAcquired>>

\* fn put_head(&mut self, ctx)
put_head(ctx, ok) ==
  /\ hist' = Record("put_head", ctx, ok)
  /\ held' = held \ {ctx}
  /\ IF ok
       THEN /\ headless' = ctx
            /\ current' = Unbound
            /\ UNCHANGED panic
       ELSE /\ panic' = "MakeNotCurrentFailed"
            /\ UNCHANGED <<headless, current>>
  /\ UNCHANGED <<window, window_surface, headless_surface, everAcquired>>

----------------------------------------------------------------------------
(* GL: what the glow calls of main do to the context bound to the thread *)

Namespaces == {"share_group"} \cup Contexts
\* Framebuffer objects are container objects: their names live per context,
\* unless the driver keeps them with the share group's objects.
NS(c) == IF fboShared THEN "share_group" ELSE c
\* The context GL calls act on: the one bound to the thread.
GLctx == current.ctx

\* `x as i32` of a u32 (the `width as _` arguments of the GL calls).
AsI32(x) == IF x <= 2147483647 THEN x ELSE (x - 2147483647) - 2147483647 - 2

\* create_framebuffer: the first unused name of the namespace.
GenFramebuffer(f, ns) ==
  CHOOSE n \in 1..MaxName :
    /\ f[ns][n].state = "free"
    /\ \A m \in 1..(n - 1) : f[ns][m].state # "free"

CreateFramebuffer(f, ns) ==
  [f EXCEPT ![ns][GenFramebuffer(f, ns)] = [state |-> "alive", att |-> 0]]

\* What a framebuffer name denotes in context c: 0 is the default
\* framebuffer, a name generated in c's namespace and not deleted is an object.
FbKind(f, c, name) ==
  IF name = 0 THEN "default"
  ELSE IF name \in 1..MaxName /\ f[NS(c)][name].state = "alive"
    THEN "object"
    ELSE "none"

\* bind_framebuffer that binds for drawing and reading whatever the target.
BindFramebuffer_both(g, f, c, target, name) ==
  IF FbKind(f, c, name) = "none" THEN g
  ELSE [g EXCEPT ![c].draw = name, ![c].read = name]

\* bind_framebuffer(target, name): a name that is no object of the context is
\* an error and leaves the binding alone.
BindFramebuffer(g, f, c, target, name) ==
  IF FbKind(f, c, name) = "none" THEN g
  ELSE IF target = "FRAMEBUFFER"
    THEN [g EXCEPT ![c].draw = name, ![c].read = name]
    ELSE IF target = "READ_FRAMEBUFFER"
      THEN [g EXCEPT ![c].read = name]
      ELSE [g EXCEPT ![c].draw = name]

\* framebuffer_renderbuffer that attaches nothing.
FramebufferRenderbuffer_ignored(g, f, c, r) == f

\* framebuffer_renderbuffer(FRAMEBUFFER, COLOR_ATTACHMENT0, RENDERBUFFER, r):
\* attaches to the draw framebuffer; an error on the default framebuffer.
FramebufferRenderbuffer(g, f, c, r) ==
  IF g[c].draw = 0 THEN f
  ELSE [f EXCEPT ![NS(c)][g[c].draw].att = r]

\* renderbuffer_storage(RENDERBUFFER, RGB8, w, h): reallocates the bound
\* renderbuffer (contents become undefined); an error with none bound or a
\* negative size.
RenderbufferStorage(g, r, c, w, h) ==
  IF g[c].renderbuffer = 0 \/ r.state # "alive" \/ w < 0 \/ h < 0 THEN r
  ELSE [r EXCEPT !.size = <<w, h>>, !.content = 0]

\* viewport(0, 0, w, h)
Viewport(g, c, w, h) ==
  IF w < 0 \/ h < 0 THEN g ELSE [g EXCEPT ![c].viewport = <<0, 0, w, h>>]

\* The renderbuffer a framebuffer name of context c draws to / reads from.
ColorAttachment(f, c, name) ==
  IF FbKind(f, c, name) = "object" THEN f[NS(c)][name].att ELSE 0

\* delete_framebuffer(name): the name is freed for good; a binding of it in
\* the current context reverts to the default framebuffer.
DeleteFramebufferObj(f, c, name) ==
  IF FbKind(f, c, name) # "object" THEN f
  ELSE [f EXCEPT ![NS(c)][name].state = "deleted"]

DeleteFramebufferBind(g, f, c, name) ==
  IF FbKind(f, c, name) # "object" THEN g
  ELSE [g EXCEPT ![c].draw = IF @ = name THEN 0 ELSE @,
                 ![c].read = IF @ = name THEN 0 ELSE @]

----------------------------------------------------------------------------
(* select_display_config, lines 53-96 *)

Configs == 1..MaxConfigs
\* What find_configs answers: an error, or the configs in the display's order.
Enumerations ==
  {[ok |-> FALSE, configs |-> <<>>]} \cup
    {[ok |-> TRUE, configs |-> q] : q \in UNION {[1..k -> Configs] : k \in 0..MaxConfigs}}

SelAt(l) == sel.pc = l /\ sel.panic = None
mainState == <<wrapperVars, mainVars, glVars, envVars, obsVars, log>>

\* 58-67: Display::from_raw with DisplayApiPreference::Glx
TryGlx ==
  /\ SelAt("l58")
  /\ sel' = [sel EXCEPT !.display = IF sel.glx THEN "Glx" ELSE "Err",
                        !.attempts = Append(@, "Glx"),
                        !.pc = "l68"]
  /\ UNCHANGED mainState

\* The test of line 68 always taken.
IsErr_always ==
  /\ SelAt("l68")
  /\ sel' = [sel EXCEPT !.pc = "l69"]
  /\ UNCHANGED mainState

\* 68: if display.is_err()
IsErr ==
  /\ SelAt("l68")
  /\ sel' = [sel EXCEPT !.pc = IF sel.display = "Err" THEN "l69" ELSE "l80"]
  /\ UNCHANGED mainState

\* 69-78: Display::from_raw with DisplayApiPreference::Egl
TryEgl ==
  /\ SelAt("l69")
  /\ sel' = [sel EXCEPT !.display = IF sel.egl THEN "Egl" ELSE "Err",
                        !.attempts = Append(@, "Egl"),
                        !.pc = "l80"]
  /\ UNCHANGED mainState

\* 80: display.expect("No display backend found")
ExpectDisplay ==
  /\ SelAt("l80")
  /\ sel' = IF sel.display = "Err"
              THEN [sel EXCEPT !.panic = "No display backend found"]
              ELSE [sel EXCEPT !.pc = "l82"]
  /\ UNCHANGED mainState

\* 82-93: display.find_configs(..).unwrap().next().unwrap(); 95: return
FindConfigs ==
  /\ SelAt("l82")
  /\ sel' = IF ~sel.found.ok
              THEN [sel EXCEPT !.panic = "find_configs failed"]
              ELSE IF sel.found.configs = <<>>
                THEN [sel EXCEPT !.panic = "no config"]
                ELSE [sel EXCEPT !.config = sel.found.configs[1], !.pc = "returned"]
  /\ UNCHANGED mainState

\* The call returned with GLX and the only config there is.
Selected ==
  [pc |-> "returned", glx |-> TRUE, egl |-> TRUE,
   found |-> [ok |-> TRUE, configs |-> <<1>>],
   display |-> "Glx", attempts |-> <<"Glx">>, config |-> 1, panic |-> None]

----------------------------------------------------------------------------
(* main *)

At(l) == pc = l /\ panic = None
\* A call as the log keeps it: what was called, on which object, and the
\* context bound to the thread at that moment.
Call(op, obj) == [op |-> op, obj |-> obj, ctx |-> GLctx]
Goto(l) == pc' = IF panic' = None THEN l ELSE pc

MainInit ==
  /\ \E w \in 1..MaxDim, h \in 1..MaxDim :
       /\ width = w
       /\ height = h
       /\ window_surface = <<w, h>>
  /\ headless_surface = <<1, 1>>
  /\ window = windowed_context
  /\ headless = headless_context
  /\ held = {}
  /\ current = Unbound
  /\ panic = None
  /\ hist = <<>>
  /\ everAcquired = {}
  /\ pc = "l152"
  /\ event = [type |-> None, w |-> 0, h |-> 0]
  /\ cf = "Poll"
  /\ render_buf = 0
  /\ window_fb = 0
  /\ headless_fb = 0
  /\ fboShared \in BOOLEAN
  /\ rb = [state |-> "none", size |-> <<0, 0>>, content |-> 0]
  /\ fbo = [ns \in Namespaces |-> [n \in 1..MaxName |-> [state |-> "free", att |-> 0]]]
  /\ gl = [c \in Contexts |->
             [renderbuffer |-> 0, draw |-> 0, read |-> 0, viewport |-> <<0, 0, 0, 0>>]]
  /\ winBack = 0
  /\ screen = 0
  /\ frame = 0
  /\ redrawRequests = 0
  /\ redrawPending = FALSE
  /\ touched = {}
  /\ rbCreation = [under |-> None, size |-> <<0, 0>>, acquired |-> {}]
  /\ storageCalls = 0
  /\ everResized = FALSE
  /\ log = <<>>

\* main goes on with the pair select_display_config returned; nothing below
\* depends on which display or config it is.
Init == MainInit /\ sel = Selected

\* The steps that are one wrapper call: `let c = ctx.ct_wnd();` and so on. The
\* handle passed to put_* is main's local c, the one handle it holds.
CtWnd(from, to) ==
  /\ UNCHANGED sel
  /\ log' = Append(log, Call("ct_wnd", "window"))
  /\ At(from)
  /\ \E ok \in BOOLEAN : ct_wnd(ok)
  /\ Goto(to)
  /\ UNCHANGED <<mainRest, glVars, envVars, obsVars>>

CtHead(from, to) ==
  /\ UNCHANGED sel
  /\ log' = Append(log, Call("ct_head", "headless"))
  /\ At(from)
  /\ \E ok \in BOOLEAN : ct_head(ok)
  /\ Goto(to)
  /\ UNCHANGED <<mainRest, glVars, envVars, obsVars>>

PutWnd(from, to) ==
  /\ UNCHANGED sel
  /\ log' = Append(log, Call("put_wnd", "window"))
  /\ At(from)
  /\ \E c \in held, ok \in BOOLEAN : put_wnd(c, ok)
  /\ Goto(to)
  /\ UNCHANGED <<mainRest, glVars, envVars, obsVars>>

PutHead(from, to) ==
  /\ UNCHANGED sel
  /\ log' = Append(log, Call("put_head", "headless"))
  /\ At(from)
  /\ \E c \in held, ok \in BOOLEAN : put_head(c, ok)
  /\ Goto(to)
  /\ UNCHANGED <<mainRest, glVars, envVars, obsVars>>

\* A step of GL calls: they act on the context bound to the thread.
GLAt(l) == At(l) /\ GLctx \in Contexts

\* surface.swap_buffers(&c).unwrap(): presents the window's back buffer (whose
\* contents are undefined afterwards); on the offscreen surface nothing shows.
SwapBuffers(surface, from, to) ==
  /\ UNCHANGED sel
  /\ log' = Append(log, Call("swap_buffers", surface))
  /\ GLAt(from)
  /\ \E ok \in BOOLEAN :
       IF ok
         THEN /\ screen' = IF surface = "window_surface" THEN winBack ELSE screen
              /\ winBack' = IF surface = "window_surface" THEN 0 ELSE winBack
              /\ UNCHANGED panic
         ELSE /\ panic' = "SwapFailed"
              /\ UNCHANGED <<screen, winBack>>
  /\ Goto(to)
  /\ UNCHANGED <<wrapperRest, mainRest, fboShared, rb, fbo, gl, frame, envVars, obsVars>>

(* initialization, lines 152-207 *)

\* Initialization that begins with the headless context.
l152_headless_first == CtHead("l152", "l161")

l152 == CtWnd("l152", "l161")

\* 161-169: create_renderbuffer, bind_renderbuffer, renderbuffer_storage
l161 ==
  /\ UNCHANGED sel
  /\ GLAt("l161")
  /\ \E ok \in BOOLEAN :
       IF ok
         THEN LET g1 == [gl EXCEPT ![GLctx].renderbuffer = 1]
                  r0 == [state |-> "alive", size |-> <<0, 0>>, content |-> 0]
                  r1 == RenderbufferStorage(g1, r0, GLctx, AsI32(width), AsI32(height))
              IN /\ render_buf' = 1
                 /\ log' = log \o <<Call("create_renderbuffer", "render_buf"),
                                    Call("bind_renderbuffer", "render_buf"),
                                    Call("renderbuffer_storage", "render_buf")>>
                 /\ gl' = g1
                 /\ rb' = r1
                 /\ rbCreation' = [under |-> GLctx, size |-> r1.size,
                                   acquired |-> everAcquired]
                 /\ UNCHANGED panic
         ELSE /\ panic' = "CreateFailed"
              /\ log' = Append(log, Call("create_renderbuffer", "render_buf"))
              /\ UNCHANGED <<render_buf, gl, rb, rbCreation>>
  /\ Goto("l171")
  /\ UNCHANGED <<wrapperRest, event, width, height, cf, window_fb, headless_fb>>
  /\ UNCHANGED <<fboShared, fbo, winBack, screen, frame, envVars>>
  /\ UNCHANGED <<touched, storageCalls, everResized>>

\* 171-182: create_framebuffer, bind it, attach render_buf, bind the default
\* framebuffer again, viewport
l171 ==
  /\ UNCHANGED sel
  /\ GLAt("l171")
  /\ \E ok \in BOOLEAN :
       IF ok
         THEN LET c == GLctx
                  name == GenFramebuffer(fbo, NS(c))
                  f1 == CreateFramebuffer(fbo, NS(c))
                  g1 == BindFramebuffer(gl, f1, c, "FRAMEBUFFER", name)
                  f2 == FramebufferRenderbuffer(g1, f1, c, render_buf)
                  g2 == BindFramebuffer(g1, f2, c, "FRAMEBUFFER", 0)
              IN /\ window_fb' = name
                 /\ log' = log \o <<Call("create_framebuffer", "window_fb"),
                                    Call("bind_framebuffer", "window_fb"),
                                    Call("framebuffer_renderbuffer", "window_fb"),
                                    Call("bind_framebuffer", "default"),
                                    Call("viewport", "")>>
                 /\ fbo' = f2
                 /\ gl' = Viewport(g2, c, AsI32(width), AsI32(height))
                 /\ touched' = touched \cup {<<"window_fb", c>>}
                 /\ UNCHANGED panic
         ELSE /\ panic' = "CreateFailed"
              /\ log' = Append(log, Call("create_framebuffer", "window_fb"))
              /\ UNCHANGED <<window_fb, fbo, gl, touched>>
  /\ Goto("l184")
  /\ UNCHANGED <<wrapperRest, event, width, height, cf, render_buf, headless_fb>>
  /\ UNCHANGED <<fboShared, rb, winBack, screen, frame, envVars>>
  /\ UNCHANGED <<rbCreation, storageCalls, everResized>>

l184 == PutWnd("l184", "l186")
l186 == CtHead("l186", "l194")

\* l194 that binds the default framebuffer again after attaching, as the
\* window side does.
l194_unbinds ==
  /\ UNCHANGED sel
  /\ GLAt("l194")
  /\ \E ok \in BOOLEAN :
       IF ok
         THEN LET c == GLctx
                  name == GenFramebuffer(fbo, NS(c))
                  f1 == CreateFramebuffer(fbo, NS(c))
                  g1 == BindFramebuffer(gl, f1, c, "FRAMEBUFFER", name)
                  g2 == [g1 EXCEPT ![c].renderbuffer = render_buf]
                  f2 == FramebufferRenderbuffer(g2, f1, c, render_buf)
                  g3 == BindFramebuffer(g2, f2, c, "FRAMEBUFFER", 0)
              IN /\ headless_fb' = name
                 /\ log' = log \o <<Call("create_framebuffer", "headless_fb"),
                                    Call("bind_framebuffer", "headless_fb"),
                                    Call("bind_renderbuffer", "render_buf"),
                                    Call("framebuffer_renderbuffer", "headless_fb"),
                                    Call("bind_framebuffer", "default"),
                                    Call("viewport", "")>>
                 /\ fbo' = f2
                 /\ gl' = Viewport(g3, c, AsI32(width), AsI32(height))
                 /\ touched' = touched \cup {<<"headless_fb", c>>}
                 /\ UNCHANGED panic
         ELSE /\ panic' = "CreateFailed"
              /\ log' = Append(log, Call("create_framebuffer", "headless_fb"))
              /\ UNCHANGED <<headless_fb, fbo, gl, touched>>
  /\ Goto("l207")
  /\ UNCHANGED <<wrapperRest, event, width, height, cf, render_buf, window_fb>>
  /\ UNCHANGED <<fboShared, rb, winBack, screen, frame, envVars>>
  /\ UNCHANGED <<rbCreation, storageCalls, everResized>>

\* 194-205: create_framebuffer, bind it, bind_renderbuffer, attach render_buf,
\* viewport (the framebuffer stays bound)
l194 ==
  /\ UNCHANGED sel
  /\ GLAt("l194")
  /\ \E ok \in BOOLEAN :
       IF ok
         THEN LET c == GLctx
                  name == GenFramebuffer(fbo, NS(c))
                  f1 == CreateFramebuffer(fbo, NS(c))
                  g1 == BindFramebuffer(gl, f1, c, "FRAMEBUFFER", name)
                  g2 == [g1 EXCEPT ![c].renderbuffer = render_buf]
                  f2 == FramebufferRenderbuffer(g2, f1, c, render_buf)
              IN /\ headless_fb' = name
                 /\ log' = log \o <<Call("create_framebuffer", "headless_fb"),
                                    Call("bind_framebuffer", "headless_fb"),
                                    Call("bind_renderbuffer", "render_buf"),
                                    Call("framebuffer_renderbuffer", "headless_fb"),
                                    Call("viewport", "")>>
                 /\ fbo' = f2
                 /\ gl' = Viewport(g2, c, AsI32(width), AsI32(height))
                 /\ touched' = touched \cup {<<"headless_fb", c>>}
                 /\ UNCHANGED panic
         ELSE /\ panic' = "CreateFailed"
              /\ log' = Append(log, Call("create_framebuffer", "headless_fb"))
              /\ UNCHANGED <<headless_fb, fbo, gl, touched>>
  /\ Goto("l207")
  /\ UNCHANGED <<wrapperRest, event, width, height, cf, render_buf, window_fb>>
  /\ UNCHANGED <<fboShared, rb, winBack, screen, frame, envVars>>
  /\ UNCHANGED <<rbCreation, storageCalls, everResized>>

l207 == PutHead("l207", "idle")

(* the event-loop closure, lines 209-298 *)

\* 210-211: `*cf = ControlFlow::Wait` at the start of every call. Once the
\* closure has left Exit in it, the event loop hands later calls a copy, so
\* Exit stays.
SetWait == IF cf = "Exit" THEN "Exit" ELSE "Wait"

(* WindowEvent::Resized(size), lines 228-263 *)

\* 228-230: width = size.width; height = size.height
Resized ==
  /\ UNCHANGED sel
  /\ log' = <<>>
  /\ At("idle")
  /\ \E w \in 0..MaxDim, h \in 0..MaxDim :
       /\ event' = [type |-> "Resized", w |-> w, h |-> h]
       /\ width' = w
       /\ height' = h
  /\ cf' = SetWait
  /\ pc' = "l232"
  /\ storageCalls' = 0
  /\ redrawRequests' = 0
  /\ UNCHANGED <<wrapperVars, render_buf, window_fb, headless_fb, glVars>>
  /\ UNCHANGED <<redrawPending, touched, rbCreation, everResized>>

l232 == CtWnd("l232", "l233")

\* l233 that checks the arguments and leaves the window surface as it was.
l233_not_resized ==
  /\ UNCHANGED sel
  /\ log' = IF width = 0 \/ height = 0 THEN log
            ELSE Append(log, Call("resize", "window_surface"))
  /\ GLAt("l233")
  /\ IF width = 0 \/ height = 0
       THEN panic' = "ZeroSize"
       ELSE UNCHANGED panic
  /\ Goto("l238")
  /\ UNCHANGED <<wrapperRest, mainRest, glVars, envVars, obsVars>>

\* 233-237: window_surface.resize(&c, NonZeroU32::new(width).unwrap(), ...)
l233 ==
  /\ UNCHANGED sel
  /\ log' = IF width = 0 \/ height = 0 THEN log
            ELSE Append(log, Call("resize", "window_surface"))
  /\ GLAt("l233")
  /\ IF width = 0 \/ height = 0
       THEN /\ panic' = "ZeroSize"
            /\ UNCHANGED <<window_surface, winBack>>
       ELSE /\ window_surface' = <<width, height>>
            /\ winBack' = 0
            /\ UNCHANGED panic
  /\ Goto("l238")
  /\ UNCHANGED <<window, headless, headless_surface, held, current, hist, everAcquired>>
  /\ UNCHANGED <<mainRest, fboShared, rb, fbo, gl, screen, frame, envVars, obsVars>>

l238 == SwapBuffers("window_surface", "l238", "l239")

\* 239-247: renderbuffer_storage, viewport
l239 ==
  /\ UNCHANGED sel
  /\ log' = log \o <<Call("renderbuffer_storage", "render_buf"), Call("viewport", "")>>
  /\ GLAt("l239")
  /\ rb' = RenderbufferStorage(gl, rb, GLctx, AsI32(width), AsI32(height))
  /\ gl' = Viewport(gl, GLctx, AsI32(width), AsI32(height))
  /\ storageCalls' = storageCalls + 1
  /\ pc' = "l248"
  /\ UNCHANGED <<wrapperVars, mainRest, fboShared, fbo, winBack, screen, frame>>
  /\ UNCHANGED <<envVars, touched, rbCreation, everResized>>

l248 == PutWnd("l248", "l250")
l250 == CtHead("l250", "l251")

\* 251-255: headless_surface.resize(&c, NonZeroU32::new(width).unwrap(), ...)
l251 ==
  /\ UNCHANGED sel
  /\ log' = IF width = 0 \/ height = 0 THEN log
            ELSE Append(log, Call("resize", "headless_surface"))
  /\ GLAt("l251")
  /\ IF width = 0 \/ height = 0
       THEN /\ panic' = "ZeroSize"
            /\ UNCHANGED <<headless_surface, everResized>>
       ELSE /\ headless_surface' = <<width, height>>
            /\ everResized' = TRUE
            /\ UNCHANGED panic
  /\ Goto("l256")
  /\ UNCHANGED <<window, headless, window_surface, held, current, hist, everAcquired>>
  /\ UNCHANGED <<mainRest, glVars, envVars, touched, rbCreation, storageCalls>>

l256 == SwapBuffers("headless_surface", "l256", "l258")

\* l258 that reallocates the renderbuffer as well, as the window side does.
l258_with_storage ==
  /\ UNCHANGED sel
  /\ log' = log \o <<Call("renderbuffer_storage", "render_buf"), Call("viewport", "")>>
  /\ GLAt("l258")
  /\ rb' = RenderbufferStorage(gl, rb, GLctx, AsI32(width), AsI32(height))
  /\ gl' = Viewport(gl, GLctx, AsI32(width), AsI32(height))
  /\ storageCalls' = storageCalls + 1
  /\ pc' = "l261"
  /\ UNCHANGED <<wrapperVars, mainRest, fboShared, fbo, winBack, screen, frame>>
  /\ UNCHANGED <<envVars, touched, rbCreation, everResized>>

\* l258 without the viewport call.
l258_no_viewport ==
  /\ UNCHANGED sel
  /\ log' = log
  /\ GLAt("l258")
  /\ pc' = "l261"
  /\ UNCHANGED <<wrapperVars, mainRest, glVars, envVars, obsVars>>

\* 258-260: glh.viewport
l258 ==
  /\ UNCHANGED sel
  /\ log' = Append(log, Call("viewport", ""))
  /\ GLAt("l258")
  /\ gl' = Viewport(gl, GLctx, AsI32(width), AsI32(height))
  /\ pc' = "l261"
  /\ UNCHANGED <<wrapperVars, mainRest, fboShared, rb, fbo, winBack, screen, frame>>
  /\ UNCHANGED <<envVars, obsVars>>

l261 == PutHead("l261", "l262")

\* l262 that returns without asking for a redraw.
l262_no_request ==
  /\ UNCHANGED sel
  /\ At("l262")
  /\ pc' = "idle"
  /\ UNCHANGED <<wrapperVars, mainRest, glVars, envVars, obsVars, log>>

\* 262: window.request_redraw()
l262 ==
  /\ UNCHANGED sel
  /\ log' = Append(log, Call("request_redraw", "window"))
  /\ At("l262")
  /\ redrawRequests' = redrawRequests + 1
  /\ redrawPending' = TRUE
  /\ pc' = "idle"
  /\ UNCHANGED <<wrapperVars, mainRest, glVars, obsVars>>

\* 264: WindowEvent::CloseRequested => *cf = ControlFlow::Exit
CloseRequested ==
  /\ UNCHANGED sel
  /\ log' = <<>>
  /\ At("idle")
  /\ event' = [type |-> "CloseRequested", w |-> 0, h |-> 0]
  /\ cf' = "Exit"
  /\ storageCalls' = 0
  /\ redrawRequests' = 0
  /\ UNCHANGED <<wrapperVars, pc, width, height, render_buf, window_fb, headless_fb>>
  /\ UNCHANGED <<glVars, redrawPending, touched, rbCreation, everResized>>

\* 265, 296: any other event
OtherEvent ==
  /\ UNCHANGED sel
  /\ log' = <<>>
  /\ At("idle")
  /\ event' = [type |-> "Other", w |-> 0, h |-> 0]
  /\ cf' = SetWait
  /\ storageCalls' = 0
  /\ redrawRequests' = 0
  /\ UNCHANGED <<wrapperVars, pc, width, height, render_buf, window_fb, headless_fb>>
  /\ UNCHANGED <<glVars, redrawPending, touched, rbCreation, everResized>>

(* Event::RedrawRequested, lines 267-295 *)

RedrawRequested ==
  /\ UNCHANGED sel
  /\ log' = <<>>
  /\ At("idle")
  /\ frame < MaxFrames
  /\ event' = [type |-> "RedrawRequested", w |-> 0, h |-> 0]
  /\ cf' = SetWait
  /\ pc' = "l268"
  /\ storageCalls' = 0
  /\ redrawRequests' = 0
  /\ redrawPending' = FALSE
  /\ UNCHANGED <<wrapperVars, width, height, render_buf, window_fb, headless_fb>>
  /\ UNCHANGED <<glVars, touched, rbCreation, everResized>>

l268 == CtHead("l268", "l269")

\* 269-272: clear_color, clear(COLOR_BUFFER_BIT): writes this frame's colour to
\* the draw framebuffer of the current context.
l269 ==
  /\ UNCHANGED sel
  /\ log' = Append(log, Call("clear", ""))
  /\ GLAt("l269")
  /\ frame' = frame + 1
  /\ LET c == GLctx
         draw == gl[c].draw
     IN /\ rb' = IF /\ FbKind(fbo, c, draw) = "object"
                    /\ ColorAttachment(fbo, c, draw) # 0
                    /\ rb.state = "alive"
                  THEN [rb EXCEPT !.content = frame + 1]
                  ELSE rb
        /\ winBack' = IF draw = 0 /\ current.surface = "window_surface"
                        THEN frame + 1
                        ELSE winBack
  /\ pc' = "l273"
  /\ UNCHANGED <<wrapperVars, mainRest, fboShared, fbo, gl, screen, envVars, obsVars>>

l273 == SwapBuffers("headless_surface", "l273", "l274")
l274 == PutHead("l274", "l276")
l276 == CtWnd("l276", "l277")

\* The size of the image a framebuffer name of context c refers to.
FbSize(f, r, c, name) ==
  IF FbKind(f, c, name) = "default"
    THEN IF current.surface = "window_surface" THEN window_surface ELSE headless_surface
    ELSE IF ColorAttachment(f, c, name) # 0 THEN r.size ELSE <<0, 0>>

\* 277-291: bind_framebuffer(READ_FRAMEBUFFER, Some(headless_fb)),
\* blit_framebuffer(0, 0, width, height, 0, 0, width, height, COLOR, NEAREST).
\* A read framebuffer without an image is an error and copies nothing; the
\* destination shows the source's image when the rectangle lies within the
\* source and covers the destination.
l277 ==
  /\ UNCHANGED sel
  /\ log' = log \o <<Call("bind_framebuffer", "headless_fb"), Call("blit_framebuffer", "")>>
  /\ GLAt("l277")
  /\ LET c == GLctx
         g1 == BindFramebuffer(gl, fbo, c, "READ_FRAMEBUFFER", headless_fb)
         read == g1[c].read
         draw == g1[c].draw
         readable == \/ FbKind(fbo, c, read) = "default"
                     \/ /\ FbKind(fbo, c, read) = "object"
                        /\ ColorAttachment(fbo, c, read) # 0
                        /\ rb.state = "alive"
         src == IF FbKind(fbo, c, read) = "default" THEN winBack ELSE rb.content
         w == AsI32(width)
         h == AsI32(height)
         whole == /\ w <= FbSize(fbo, rb, c, read)[1]
                  /\ h <= FbSize(fbo, rb, c, read)[2]
                  /\ FbSize(fbo, rb, c, draw) = <<w, h>>
         image == IF whole THEN src ELSE 0
     IN /\ gl' = g1
        /\ winBack' = IF readable /\ draw = 0 /\ current.surface = "window_surface"
                        THEN image
                        ELSE winBack
        /\ rb' = IF /\ readable
                    /\ FbKind(fbo, c, draw) = "object"
                    /\ ColorAttachment(fbo, c, draw) # 0
                    /\ rb.state = "alive"
                  THEN [rb EXCEPT !.content = image]
                  ELSE rb
        /\ touched' = touched \cup {<<"headless_fb", c>>}
  /\ pc' = "l293"
  /\ UNCHANGED <<wrapperVars, mainRest, fboShared, fbo, screen, frame, envVars>>
  /\ UNCHANGED <<rbCreation, storageCalls, everResized>>

l293 == SwapBuffers("window_surface", "l293", "l294")
l294 == PutWnd("l294", "idle")

(* Event::LoopDestroyed, lines 214-226 *)

\* Delivered once, when the loop ends: the closure has asked for Exit.
LoopDestroyed ==
  /\ UNCHANGED sel
  /\ log' = <<>>
  /\ At("idle")
  /\ cf = "Exit"
  /\ event' = [type |-> "LoopDestroyed", w |-> 0, h |-> 0]
  /\ cf' = SetWait
  /\ pc' = "l215"
  /\ storageCalls' = 0
  /\ redrawRequests' = 0
  /\ UNCHANGED <<wrapperVars, width, height, render_buf, window_fb, headless_fb>>
  /\ UNCHANGED <<glVars, redrawPending, touched, rbCreation, everResized>>

l215 == CtWnd("l215", "l216")

\* l216 that deletes the framebuffer and leaves the renderbuffer.
l216_keeps_renderbuffer ==
  /\ UNCHANGED sel
  /\ log' = Append(log, Call("delete_framebuffer", "window_fb"))
  /\ GLAt("l216")
  /\ LET c == GLctx
     IN /\ fbo' = DeleteFramebufferObj(fbo, c, window_fb)
        /\ gl' = DeleteFramebufferBind(gl, fbo, c, window_fb)
        /\ touched' = touched \cup {<<"window_fb", c>>}
  /\ pc' = "l220"
  /\ UNCHANGED <<wrapperVars, mainRest, fboShared, rb, winBack, screen, frame, envVars>>
  /\ UNCHANGED <<rbCreation, storageCalls, everResized>>

\* 216-219: delete_framebuffer(window_fb), delete_renderbuffer(render_buf)
l216 ==
  /\ UNCHANGED sel
  /\ log' = log \o <<Call("delete_framebuffer", "window_fb"),
                     Call("delete_renderbuffer", "render_buf")>>
  /\ GLAt("l216")
  /\ LET c == GLctx
     IN /\ fbo' = DeleteFramebufferObj(fbo, c, window_fb)
        /\ gl' = [DeleteFramebufferBind(gl, fbo, c, window_fb)
                    EXCEPT ![c].renderbuffer = IF @ = render_buf THEN 0 ELSE @]
        /\ rb' = IF rb.state = "alive" THEN [rb EXCEPT !.state = "deleted"] ELSE rb
        /\ touched' = touched \cup {<<"window_fb", c>>}
  /\ pc' = "l220"
  /\ UNCHANGED <<wrapperVars, mainRest, fboShared, winBack, screen, frame, envVars>>
  /\ UNCHANGED <<rbCreation, storageCalls, everResized>>

l220 == PutWnd("l220", "l221")
l221 == CtHead("l221", "l222")

\* 222-224: delete_framebuffer(headless_fb)
l222 ==
  /\ UNCHANGED sel
  /\ log' = Append(log, Call("delete_framebuffer", "headless_fb"))
  /\ GLAt("l222")
  /\ LET c == GLctx
     IN /\ fbo' = DeleteFramebufferObj(fbo, c, headless_fb)
        /\ gl' = DeleteFramebufferBind(gl, fbo, c, headless_fb)
        /\ touched' = touched \cup {<<"headless_fb", c>>}
  /\ pc' = "l225"
  /\ UNCHANGED <<wrapperVars, mainRest, fboShared, rb, winBack, screen, frame, envVars>>
  /\ UNCHANGED <<rbCreation, storageCalls, everResized>>

\* l225 after which the loop goes on delivering events.
l225_loop_goes_on == PutHead("l225", "idle")

l225 == PutHead("l225", "exited")

Initialization == l152 \/ l161 \/ l171 \/ l184 \/ l186 \/ l194 \/ l207
ResizedHandler ==
  \/ Resized \/ l232 \/ l233 \/ l238 \/ l239 \/ l248
  \/ l250 \/ l251 \/ l256 \/ l258 \/ l261 \/ l262
RedrawHandler ==
  RedrawRequested \/ l268 \/ l269 \/ l273 \/ l274 \/ l276 \/ l277 \/ l293 \/ l294
Teardown == LoopDestroyed \/ l215 \/ l216 \/ l220 \/ l221 \/ l222 \/ l225

Next ==
  \/ Initialization
  \/ ResizedHandler
  \/ RedrawHandler
  \/ CloseRequested
  \/ OtherEvent
  \/ Teardown

Spec == Init /\ [][Next]_vars

\* What the process does by itself: the statements of main and of a handler
\* that has been entered. The thread runs them to the end or to a panic.
ProgramStep ==
  \/ Initialization
  \/ l232 \/ l233 \/ l238 \/ l239 \/ l248 \/ l250 \/ l251 \/ l256 \/ l258 \/ l261 \/ l262
  \/ l268 \/ l269 \/ l273 \/ l274 \/ l276 \/ l277 \/ l293 \/ l294
  \/ l215 \/ l216 \/ l220 \/ l221 \/ l222 \/ l225

\* Spec with progress: the thread keeps running, and the event loop delivers
\* a RedrawRequested whenever it is again and again in a position to.
SpecLive == Spec /\ WF_vars(ProgramStep) /\ SF_vars(RedrawRequested)

\* select_display_config on its own: called by main once the window exists,
\* with any answers of the two backends and of find_configs.
SelectInit ==
  /\ MainInit
  /\ \E g \in BOOLEAN, e \in BOOLEAN, f \in Enumerations :
       sel = [pc |-> "l58", glx |-> g, egl |-> e, found |-> f,
              display |-> None, attempts |-> <<>>, config |-> 0, panic |-> None]

select_display_config == TryGlx \/ IsErr \/ TryEgl \/ ExpectDisplay \/ FindConfigs

SpecSelect == SelectInit /\ [][select_display_config]_vars

----------------------------------------------------------------------------
(* The ContextWrapper on its own: a caller that makes the four calls in any *)
(* order, passing put_* any handle it holds.                               *)

CallCtWnd ==
  /\ UNCHANGED sel
  /\ UNCHANGED log
  /\ panic = None
  /\ \E ok \in BOOLEAN : ct_wnd(ok)
  /\ UNCHANGED <<mainVars, glVars, envVars, obsVars>>

CallCtHead ==
  /\ UNCHANGED sel
  /\ UNCHANGED log
  /\ panic = None
  /\ \E ok \in BOOLEAN : ct_head(ok)
  /\ UNCHANGED <<mainVars, glVars, envVars, obsVars>>

CallPutWnd ==
  /\ UNCHANGED sel
  /\ UNCHANGED log
  /\ panic = None
  /\ \E c \in held, ok \in BOOLEAN : put_wnd(c, ok)
  /\ UNCHANGED <<mainVars, glVars, envVars, obsVars>>

CallPutHead ==
  /\ UNCHANGED sel
  /\ UNCHANGED log
  /\ panic = None
  /\ \E c \in held, ok \in BOOLEAN : put_head(c, ok)
  /\ UNCHANGED <<mainVars, glVars, envVars, obsVars>>

NextAPI == CallCtWnd \/ CallCtHead \/ CallPutWnd \/ CallPutHead

SpecAPI == Init /\ [][NextAPI]_vars

----------------------------------------------------------------------------
(* Properties *)

\* A context is Current while it is handed out: its handle is with the caller.
Current(c) == c \in held
\* The last wrapper call and the one before it.
Last == hist[1]
Prev == hist[2]
Acquires == {"ct_wnd", "ct_head"}
Releases == {"put_wnd", "put_head"}
Matching(acq, rel) ==
  \/ acq.op = "ct_wnd" /\ rel.op = "put_wnd" /\ rel.arg = acq.pre.window
  \/ acq.op = "ct_head" /\ rel.op = "put_head" /\ rel.arg = acq.pre.headless

\* C1: in main (initialization and every event handler, whatever the events),
\* acquires and releases strictly alternate: an acquire is the first wrapper
\* call or follows a release, a release follows the matching acquire and
\* returns the context that acquire took; an acquire never finds its slot
\* empty; the two contexts are never both Current; and at the end of
\* initialization and of every handler both slots hold their own context.
C1_AcquireReleaseAlternate ==
  /\ panic # "DoubleAcquire"
  /\ ~(Current(windowed_context) /\ Current(headless_context))
  /\ ~(window = None /\ headless = None)
  /\ Len(hist) >= 1 /\ Last.op \in Acquires =>
       /\ Last.pre.held = {}
       /\ Last.pre.window = windowed_context
       /\ Last.pre.headless = headless_context
       /\ Len(hist) = 2 => Prev.op \in Releases
  /\ Len(hist) >= 1 /\ Last.op \in Releases =>
       /\ Len(hist) = 2
       /\ Prev.op \in Acquires
       /\ Matching(Prev, Last)
  /\ pc \in {"idle", "exited"} =>
       /\ window = windowed_context
       /\ headless = headless_context
       /\ held = {}

\* C1 witness: a whole run (resize, redraw, teardown) has ended.
C1_Witness ==
  /\ pc = "exited"
  /\ everResized
  /\ frame >= 1
  /\ Last.op = "put_head"

\* C2: whatever calls the caller makes on the wrapper, the two contexts are
\* never both Current (handed out and not yet released).
C2_MutualExclusion ==
  ~(Current(windowed_context) /\ Current(headless_context))

\* C3: an acquire of a context whose slot is empty ends in the fatal
\* DoubleAcquire and hands nothing out; an acquire of a context that is in its
\* slot (the backend accepting make_current) binds it with its own surface and
\* makes it Current.
C3_Acquire ==
  Len(hist) >= 1 =>
    /\ Last.op = "ct_wnd" /\ Last.pre.window = None =>
         /\ panic = "DoubleAcquire"
         /\ held = Last.pre.held
         /\ current = Last.pre.current
    /\ Last.op = "ct_head" /\ Last.pre.headless = None =>
         /\ panic = "DoubleAcquire"
         /\ held = Last.pre.held
         /\ current = Last.pre.current
    /\ Last.op = "ct_wnd" /\ Last.pre.window = windowed_context /\ Last.ok =>
         /\ panic = None
         /\ current = [ctx |-> windowed_context, surface |-> "window_surface"]
         /\ Current(windowed_context)
         /\ window = None
    /\ Last.op = "ct_head" /\ Last.pre.headless = headless_context /\ Last.ok =>
         /\ panic = None
         /\ current = [ctx |-> headless_context, surface |-> "headless_surface"]
         /\ Current(headless_context)
         /\ headless = None

\* C3 witness: a successful acquire of the headless context, then a second one.
C3_Witness ==
  /\ Len(hist) = 2
  /\ Prev.op = "ct_head" /\ Prev.ok /\ Prev.pre.headless = headless_context
  /\ Last.op = "ct_head" /\ Last.pre.headless = None
  /\ panic = "DoubleAcquire"

\* C4: an operation that ends because a surface present failed while a
\* context was held (in the redraw or the resize handler) has released that
\* context: it is back in its slot and no handle is out.
C4_ReleasedOnEveryExitPath ==
  panic = "SwapFailed" =>
    /\ held = {}
    /\ window # None
    /\ headless # None

\* An acquire of X from a state where X is NotCurrent, immediately followed by
\* the release of the handle it returned.
RoundTrip(acq, rel, slot, X) ==
  /\ Len(hist) = 2
  /\ Prev.op = acq /\ Prev.ok /\ Prev.pre[slot] = X
  /\ Last.op = rel /\ Last.ok /\ Last.arg = X

\* C5: acquire(X); release(X) from a state where X is NotCurrent restores the
\* wrapper: both slots, both surfaces and the set of handles out are as
\* before, and nothing is bound to the thread.
C5_RoundTrip ==
  \A p \in {<<"ct_wnd", "put_wnd", "window", windowed_context>>,
            <<"ct_head", "put_head", "headless", headless_context>>} :
    RoundTrip(p[1], p[2], p[3], p[4]) =>
      /\ window = Prev.pre.window
      /\ headless = Prev.pre.headless
      /\ window_surface = Prev.pre.window_surface
      /\ headless_surface = Prev.pre.headless_surface
      /\ held = Prev.pre.held
      /\ current = Unbound
      /\ panic = None

\* C5 witness: a round trip of the headless context while the window context
\* is Current.
C5_Witness ==
  /\ RoundTrip("ct_head", "put_head", "headless", headless_context)
  /\ Current(windowed_context)

\* The renderbuffer a framebuffer handle of main denotes in context c (0 when
\* the name is no framebuffer object of c or has no attachment).
Attached(c, name) == ColorAttachment(fbo, c, name)
Both(v) == \A c \in Contexts : gl[c].viewport = v

\* C6: when the handler of Resized(W, H), W > 0 and H > 0, has completed, the
\* renderbuffer's storage is W x H and both contexts' viewports are
\* (0, 0, W, H).
C6_ResizeConsistency ==
  pc = "idle" /\ event.type = "Resized" /\ event.w > 0 /\ event.h > 0 =>
    /\ rb.state = "alive"
    /\ rb.size = <<event.w, event.h>>
    /\ gl[windowed_context].viewport = <<0, 0, event.w, event.h>>
    /\ gl[headless_context].viewport = <<0, 0, event.w, event.h>>

\* C6 witness: a resize to 2 x 1 of a renderbuffer created at another size
\* has completed.
C6_Witness ==
  /\ pc = "idle"
  /\ event = [type |-> "Resized", w |-> 2, h |-> 1]
  /\ rbCreation.size # <<2, 1>>
  /\ rb.size = <<2, 1>>
  /\ Both(<<0, 0, 2, 1>>)

\* C7 as claimed: between handlers the renderbuffer's storage, the window
\* surface and the offscreen surface all have the logical frame size.
C7_AllThreeSizes ==
  pc = "idle" =>
    /\ rb.size = <<width, height>>
    /\ window_surface = <<width, height>>
    /\ headless_surface = <<width, height>>

\* C7 amended: between handlers the renderbuffer's storage and the window
\* surface have the logical frame size; the offscreen surface has it once a
\* Resized event has been handled and is 1 x 1 until then.
C7_FrameSize ==
  pc = "idle" =>
    /\ rb.state = "alive"
    /\ rb.size = <<width, height>>
    /\ window_surface = <<width, height>>
    /\ headless_surface = IF everResized THEN <<width, height>> ELSE <<1, 1>>

\* C7 witness: a frame has been drawn at 2 x 2 while the offscreen surface is
\* still 1 x 1.
C7_Witness ==
  /\ pc = "idle"
  /\ ~everResized
  /\ frame >= 1
  /\ rb.size = <<2, 2>>
  /\ headless_surface = <<1, 1>>

\* C8: a redraw runs acquire Compute, clear (into the Compute framebuffer,
\* whose colour attachment is the shared renderbuffer), present offscreen,
\* release Compute, acquire Presentation, blit (from a framebuffer backed by
\* the shared renderbuffer into the default window framebuffer), present
\* window, release Presentation (no call failing); what the window then
\* shows is what this run's clear wrote.
C8_RedrawPipeline ==
  panic = None =>
    /\ pc = "l268" => held = {} /\ current = Unbound
    /\ pc = "l269" =>
         /\ current = [ctx |-> headless_context, surface |-> "headless_surface"]
         /\ held = {headless_context}
         /\ Attached(headless_context, gl[headless_context].draw) = render_buf
         /\ render_buf # 0
    /\ pc = "l273" =>
         /\ current.ctx = headless_context
         /\ rb.content = frame
    /\ pc = "l274" => held = {headless_context} /\ rb.content = frame
    /\ pc = "l276" => held = {} /\ current = Unbound /\ rb.content = frame
    /\ pc = "l277" =>
         /\ current = [ctx |-> windowed_context, surface |-> "window_surface"]
         /\ held = {windowed_context}
         /\ rb.content = frame
    /\ pc = "l293" =>
         /\ current.ctx = windowed_context
         /\ gl[windowed_context].draw = 0
         /\ Attached(windowed_context, gl[windowed_context].read) = render_buf
         /\ winBack = frame
    /\ pc = "l294" => held = {windowed_context} /\ screen = frame
    /\ pc = "idle" /\ event.type = "RedrawRequested" =>
         /\ frame >= 1
         /\ screen = frame
         /\ held = {}

\* C8 witness: the second redraw of a run has completed, after a resize.
C8_Witness ==
  /\ pc = "idle"
  /\ event.type = "RedrawRequested"
  /\ everResized
  /\ frame = 2
  /\ screen = 2

\* C9: a framebuffer handle is only ever passed to GL while the context it
\* was created in is current.
C9_PrivateFramebuffers ==
  \A t \in touched :
    /\ t[1] = "window_fb" => t[2] = windowed_context
    /\ t[1] = "headless_fb" => t[2] = headless_context

\* C10 as claimed: the renderbuffer is created, at the window's size, while
\* the Compute context is current and before Presentation was ever acquired.
C10_CreatedUnderCompute ==
  rbCreation.under # None =>
    /\ rbCreation.under = headless_context
    /\ windowed_context \notin rbCreation.acquired
    /\ event.type = None => rbCreation.size = window_surface

\* C10 amended: the renderbuffer is created, its storage at the window's
\* initial size, while the Presentation context is current and before the
\* Compute context was ever acquired; Compute is acquired only afterwards, to
\* create its framebuffer and attach the renderbuffer that already exists.
C10_CreatedUnderPresentation ==
  /\ rbCreation.under # None =>
       /\ rbCreation.under = windowed_context
       /\ headless_context \notin rbCreation.acquired
       /\ event.type = None =>
            /\ rbCreation.size = <<width, height>>
            /\ rbCreation.size = window_surface
            /\ rb.size = rbCreation.size
  /\ headless_context \in everAcquired =>
       /\ rbCreation.under # None
       /\ window_fb # 0
  /\ headless_fb # 0 /\ event.type = None =>
       /\ Attached(windowed_context, window_fb) = render_buf
       /\ Attached(headless_context, headless_fb) = render_buf

\* C10 witness: initialization has ended for a 2 x 1 window.
C10_Witness ==
  /\ pc = "idle"
  /\ event.type = None
  /\ rbCreation.under = windowed_context
  /\ rbCreation.size = <<2, 1>>
  /\ headless_surface = <<1, 1>>
  /\ Attached(headless_context, headless_fb) = render_buf

\* Positions in the log of the calls of one kind, of one kind on one object.
Calls(op) == {i \in 1..Len(log) : log[i].op = op}
CallsOn(op, obj) == {i \in Calls(op) : log[i].obj = obj}
\* A handler of the given event has run to its end.
Completed(type) == pc = "idle" /\ event.type = type

\* C11: a Resized handler reallocates the renderbuffer storage exactly once,
\* under the Presentation context, after the window surface was resized and
\* presented; Presentation is released before Compute is acquired; and no
\* renderbuffer_storage call is ever made while Compute is current.
C11_StorageOncePerResize ==
  /\ \A i \in Calls("renderbuffer_storage") : log[i].ctx = windowed_context
  /\ Cardinality(Calls("renderbuffer_storage")) <= 1
  /\ Completed("Resized") =>
       /\ Cardinality(Calls("renderbuffer_storage")) = 1
       /\ storageCalls = 1
       /\ \A i \in Calls("renderbuffer_storage") :
            /\ \E j \in CallsOn("resize", "window_surface") :
                 \E k \in CallsOn("swap_buffers", "window_surface") : j < k /\ k < i
            /\ \E p \in Calls("put_wnd") :
                 /\ i < p
                 /\ \A q \in Calls("ct_head") : p < q
       /\ Cardinality(Calls("ct_head")) = 1
       /\ Cardinality(Calls("put_wnd")) = 1

\* C11 witness: a resize that changed the renderbuffer's size has completed.
C11_Witness ==
  /\ Completed("Resized")
  /\ rb.size # rbCreation.size
  /\ Cardinality(Calls("renderbuffer_storage")) = 1

\* The blit of a redraw has just been made, with a rectangle (0, 0, width,
\* height) that is the size of the renderbuffer and of the window surface.
BlitAtFrameSize ==
  /\ pc = "l293"
  /\ rb.size = <<width, height>>
  /\ window_surface = <<width, height>>
  /\ winBack = frame

\* C12: a Resized handler that completes has asked for a redraw exactly once,
\* as its last call, with both contexts back in their slots and the
\* renderbuffer and both viewports at the new size; no other handler asks
\* for one; and with the event loop delivering redraws, a completed resize is
\* followed by a blit at the frame size, unless the process panics or the
\* loop is torn down first (a run draws at most MaxFrames frames, so the
\* resize is one that completes while a frame is left).
C12_ResizeRequestsRedraw ==
  /\ [](/\ Calls("request_redraw") # {} => event.type = "Resized"
        /\ pc = "l262" /\ panic = None =>
             /\ Calls("request_redraw") = {}
             /\ held = {}
             /\ window = windowed_context
             /\ headless = headless_context
             /\ rb.size = <<event.w, event.h>>
             /\ Both(<<0, 0, event.w, event.h>>)
        /\ Completed("Resized") =>
             /\ Calls("request_redraw") = {Len(log)}
             /\ redrawRequests = 1
             /\ redrawPending)
  /\ (Completed("Resized") /\ frame < MaxFrames) ~>
       (BlitAtFrameSize \/ panic # None \/ pc = "exited")

\* C12 witness: the redraw that follows a resize to 2 x 1 has made its blit.
C12_Witness ==
  /\ BlitAtFrameSize
  /\ everResized
  /\ rb.size = <<2, 1>>
  /\ rbCreation.size # <<2, 1>>
  /\ ~redrawPending

Deletes == Calls("delete_framebuffer") \cup Calls("delete_renderbuffer")
TornDown == pc = "exited" /\ panic = None

\* C13: only the LoopDestroyed handler deletes; when it has run, the
\* renderbuffer has been deleted by one call under the window context,
\* window_fb by one call under the window context and, after it, headless_fb
\* by one call under the headless context; the three objects are gone and
\* both contexts are back in their slots, none current.
C13_TeardownDeletesOnce ==
  /\ Deletes # {} => event.type = "LoopDestroyed"
  /\ \A i \in Deletes :
       log[i].ctx = IF log[i].obj = "headless_fb" THEN headless_context
                                                  ELSE windowed_context
  /\ TornDown =>
       /\ Cardinality(CallsOn("delete_renderbuffer", "render_buf")) = 1
       /\ Cardinality(CallsOn("delete_framebuffer", "window_fb")) = 1
       /\ Cardinality(CallsOn("delete_framebuffer", "headless_fb")) = 1
       /\ Cardinality(Deletes) = 3
       /\ \A i \in CallsOn("delete_framebuffer", "window_fb") :
            \A j \in CallsOn("delete_framebuffer", "headless_fb") : i < j
       /\ rb.state = "deleted"
       /\ fbo[NS(windowed_context)][window_fb].state = "deleted"
       /\ fbo[NS(headless_context)][headless_fb].state = "deleted"
       /\ held = {}
       /\ current = Unbound
       /\ window = windowed_context
       /\ headless = headless_context

\* C13 witness: the loop has been torn down after a resize and a frame.
C13_Witness ==
  /\ TornDown
  /\ everResized
  /\ frame > 0
  /\ rb.state = "deleted"

Draws == Calls("clear") \cup Calls("blit_framebuffer") \cup Calls("swap_buffers")

\* C14: once CloseRequested has been handled (the control flow is Exit), no
\* event handled afterwards clears, blits or presents a surface.
C14_NoDrawAfterClose == cf = "Exit" => Draws = {}

UsesOf(obj) ==
  {i \in 1..Len(log) :
     /\ log[i].obj = obj
     /\ log[i].op \in {"bind_framebuffer", "bind_renderbuffer", "renderbuffer_storage",
                       "framebuffer_renderbuffer", "clear", "blit_framebuffer"}}
\* All that teardown still does once it has begun to delete.
TeardownRest == {"put_wnd", "ct_head", "put_head", "delete_framebuffer", "delete_renderbuffer"}

\* C15: the LoopDestroyed handler is the last to run: after a delete call only
\* the rest of the teardown is called, never a use of the deleted object; no
\* other handler runs once an object has been deleted; teardown ends with
\* put_head, and the process takes no step after it.
C15_TeardownIsLast ==
  /\ [](/\ \A i \in Deletes : \A j \in (i + 1)..Len(log) :
             /\ log[j].op \in TeardownRest
             /\ j \notin UsesOf(log[i].obj)
        /\ rb.state = "deleted" => event.type = "LoopDestroyed"
        /\ (\E ns \in Namespaces, n \in 1..MaxName : fbo[ns][n].state = "deleted")
             => event.type = "LoopDestroyed"
        /\ event.type = "LoopDestroyed" =>
             Calls("clear") \cup Calls("blit_framebuffer") \cup Calls("swap_buffers") = {}
        /\ TornDown => log[Len(log)].op = "put_head")
  /\ [][pc = "exited" => UNCHANGED vars]_vars

\* C15 witness: teardown has completed, its last call being put_head.
C15_Witness ==
  /\ TornDown
  /\ Len(log) = 7
  /\ log[7].op = "put_head"
  /\ log[6].op = "delete_framebuffer"

InitLabels == {"l152", "l161", "l171", "l184", "l186", "l194", "l207"}
\* Initialization has completed and teardown has not begun.
Running == pc \notin InitLabels /\ event.type # "LoopDestroyed"

\* C16: from the end of initialization until teardown both framebuffers have
\* the one renderbuffer render_buf as colour attachment 0 and it is alive;
\* main creates it once and attaches it once to each framebuffer, no handler
\* creates or attaches; a step of a handler leaves the renderbuffer's name and
\* both attachments as they are.
C16_OneSharedRenderbuffer ==
  /\ [](/\ Running =>
             /\ render_buf # 0
             /\ rb.state = "alive"
             /\ Attached(windowed_context, window_fb) = render_buf
             /\ Attached(headless_context, headless_fb) = render_buf
        /\ Cardinality(Calls("create_renderbuffer")) <= 1
        /\ Running /\ event.type = None =>
             /\ Cardinality(Calls("create_renderbuffer")) = 1
             /\ Cardinality(CallsOn("framebuffer_renderbuffer", "window_fb")) = 1
             /\ Cardinality(CallsOn("framebuffer_renderbuffer", "headless_fb")) = 1
        /\ event.type # None =>
             /\ Calls("create_renderbuffer") = {}
             /\ Calls("create_framebuffer") = {}
             /\ Calls("framebuffer_renderbuffer") = {})
  /\ [][Running /\ Running' =>
          /\ render_buf' = render_buf
          /\ window_fb' = window_fb
          /\ headless_fb' = headless_fb
          /\ fbo' = fbo
          /\ rb'.state = rb.state]_vars

\* C16 witness: after a resize and a frame both framebuffers carry render_buf,
\* whose storage is no longer the one of its creation.
C16_Witness ==
  /\ Completed("RedrawRequested")
  /\ everResized
  /\ rb.size # rbCreation.size
  /\ Attached(windowed_context, window_fb) = render_buf
  /\ Attached(headless_context, headless_fb) = render_buf
  /\ render_buf # 0

\* The calls after which a framebuffer's completeness can have changed.
AttachOrResize ==
  Calls("framebuffer_renderbuffer") \cup
    (IF event.type = "Resized" THEN Calls("renderbuffer_storage") ELSE {})

\* C17: the call that follows an attachment of the renderbuffer, or a
\* renderbuffer_storage of a Resized handler, is check_framebuffer_status.
C17_CompletenessChecked ==
  \A i \in AttachOrResize : i < Len(log) => log[i + 1].op = "check_framebuffer_status"

\* C18: GLX is tried first and EGL only after GLX failed; the display is
\* GLX's when GLX succeeds, EGL's when only EGL succeeds, and with neither
\* the call panics with "No display backend found"; the config returned is
\* the first one find_configs enumerates, and a failed or empty enumeration
\* panics.
C18_BackendOrder ==
  /\ [](/\ sel.attempts \in {<<>>, <<"Glx">>, <<"Glx", "Egl">>}
        /\ Len(sel.attempts) = 2 => ~sel.glx
        /\ sel.glx /\ sel.pc # "l58" => sel.attempts = <<"Glx">> /\ sel.display = "Glx"
        /\ sel.pc \in {"l82", "returned"} =>
             /\ sel.display = IF sel.glx THEN "Glx" ELSE "Egl"
             /\ sel.glx \/ sel.egl
        /\ sel.panic = "No display backend found" =>
             ~sel.glx /\ ~sel.egl /\ sel.attempts = <<"Glx", "Egl">>
        /\ sel.pc = "returned" =>
             /\ sel.panic = None
             /\ sel.found.ok
             /\ sel.found.configs # <<>>
             /\ sel.config = sel.found.configs[1])
  /\ [][/\ SelAt("l80") /\ ~sel.glx /\ ~sel.egl =>
             sel'.panic = "No display backend found"
        /\ SelAt("l82") /\ (~sel.found.ok \/ sel.found.configs = <<>>) =>
             sel'.panic # None /\ sel'.pc # "returned"
        /\ SelAt("l82") /\ sel.found.ok /\ sel.found.configs # <<>> =>
             sel'.pc = "returned"]_vars

\* C18 witness: GLX failed, EGL answered, and of two different configs the
\* first one enumerated was returned.
C18_Witness ==
  /\ sel.pc = "returned"
  /\ sel.display = "Egl"
  /\ sel.attempts = <<"Glx", "Egl">>
  /\ Len(sel.found.configs) = 2
  /\ sel.found.configs[1] # sel.found.configs[2]
  /\ sel.config = sel.found.configs[1]

\* The bindings the handlers' calls act through, at the calls.
BoundAtUse ==
  /\ At("l239") =>
       /\ GLctx = windowed_context
       /\ render_buf # 0
       /\ gl[windowed_context].renderbuffer = render_buf
  /\ At("l269") =>
       /\ GLctx = headless_context
       /\ headless_fb # 0
       /\ gl[headless_context].draw = headless_fb
  /\ At("l277") =>
       /\ GLctx = windowed_context
       /\ gl[windowed_context].draw = 0
SameBindings ==
  \A c \in Contexts :
    /\ gl'[c].renderbuffer = gl[c].renderbuffer
    /\ gl'[c].draw = gl[c].draw

\* C19: at renderbuffer_storage of a Resized handler the window context has
\* render_buf bound, at clear the headless context draws to headless_fb, at
\* blit the window context draws to the default framebuffer; and no step of
\* any event handler changes a renderbuffer or draw-framebuffer binding.
C19_BindingsNeverChange ==
  /\ []BoundAtUse
  /\ [][pc \notin InitLabels => SameBindings]_vars

\* C19 as amended: the same, with the bindings unchanged by every handler
\* before teardown; the deletions of teardown revert the bindings of what
\* they delete to zero and change no other.
C19_BindingsUntilTeardown ==
  /\ []BoundAtUse
  /\ [](Running =>
          /\ gl[windowed_context].renderbuffer = render_buf
          /\ gl[windowed_context].draw = 0
          /\ gl[headless_context].draw = headless_fb)
  /\ [][/\ Running => SameBindings
        /\ pc \notin InitLabels =>
             \A c \in Contexts :
               /\ gl'[c].renderbuffer \in {gl[c].renderbuffer, 0}
               /\ gl'[c].draw \in {gl[c].draw, 0}]_vars
  /\ [](TornDown =>
          /\ gl[windowed_context].renderbuffer = 0
          /\ gl[headless_context].draw = 0)

\* C19 witness: a redraw after a resize has cleared and blitted through the
\* bindings of initialization.
C19_Witness ==
  /\ pc = "l293"
  /\ panic = None
  /\ everResized
  /\ Calls("clear") # {}
  /\ gl[windowed_context].renderbuffer = render_buf
  /\ gl[windowed_context].draw = 0
  /\ gl[headless_context].draw = headless_fb
  /\ headless_fb # 0

\* C20: when a Resized handler has panicked on a zero width or height,
\* nothing is current and both contexts are in their slots, the renderbuffer,
\* the viewports and the window surface still have their common size, and
\* the recorded (width, height) is still that size.
C20_ZeroSizeChangesNothing ==
  panic = "ZeroSize" =>
    /\ held = {}
    /\ current = Unbound
    /\ window = windowed_context
    /\ headless = headless_context
    /\ window_surface = rb.size
    /\ Both(<<0, 0, rb.size[1], rb.size[2]>>)
    /\ <<width, height>> = rb.size

====
